---- MODULE Spec2Model ----
(***************************************************************************)
(* ClawKanban (src/clawkanban.py): the task document kept in tasks.json,   *)
(* the operations add_task / update_task / delete_task / set_wip_limit run *)
(* by separate processes that share the file, the stale check that         *)
(* precedes every save and the atomic save with its recovery log.          *)
(*                                                                         *)
(* A process is one ClawKanban object.  Its handlers are cut at their file *)
(* accesses (_read_full_data, mkstemp, the replace of _write_full_data):   *)
(* the computation between two accesses is local and belongs to the step   *)
(* of the access before it.                                                *)
(***************************************************************************)
EXTENDS Integers, Sequences, FiniteSets, TLC

VARIABLES file, disk, tmp, recovery, now, nextId, procs, codec, board

vars == <<file, disk, tmp, recovery, now, nextId, procs, codec, board>>

(***************************************************************************)
(* file is the state of tasks.json: "missing", "partial" (created or       *)
(* truncated by open(..., 'w') and not yet written and closed) or "whole", *)
(* and then disk is the document it holds.  codec is a task record taken   *)
(* through to_dict and from_dict (see SpecCodec); the store does not read  *)
(* it.  board is a list of task records taken through the sort of          *)
(* list_tasks (see SpecSort).                                              *)
(***************************************************************************)

(***************************************************************************)
(* Bounds.                                                                 *)
(***************************************************************************)
MaxTasks == 3       \* tasks add_task creates in one behaviour
MaxClock == 5       \* an operation starts while fewer than MaxClock saves were stamped
MaxFail == 1        \* failed saves in one behaviour
RaceTasks == 2      \* MaxTasks, where two processes interleave
RaceClock == 3      \* MaxClock, where two processes interleave
LinkTasks == 2      \* MaxTasks, where link lists are supplied
LinkClock == 4      \* MaxClock, where link lists are supplied
MaxLinks == 2       \* length of a supplied blocks / blocked_by list
ListMax == 2      \* MaxTasks, where the board is listed
ListClock == 3      \* MaxClock, where the board is listed
MaxTrips == 2       \* times one record is serialized and read back
MaxBoard == 2       \* tasks on a board that is sorted
MaxDue == 2         \* distinct due dates on a board that is sorted
StrangerClock == 3  \* MaxClock, where link lists name ids the document lacks
CapClock == 4       \* MaxClock, where two processes interleave under a fixed limit

\* the processes sharing the document
Procs == {"p1", "p2"}

(***************************************************************************)
(* Values.  NoId stands for None where an id is expected, NoName for None  *)
(* where a string is expected.                                             *)
(***************************************************************************)
NoId == 0
NoName == "None"
Actor == "Nova"
Statuses == {"Open", "InProgress", "Done", "Archived", "Gutter"}
Finished == {"Done", "Archived"}

Has(args, f) == f \in DOMAIN args

(***************************************************************************)
(* Python lists.                                                           *)
(***************************************************************************)
Elems(s) == {s[i] : i \in DOMAIN s}

Contains(s, x) == \E i \in DOMAIN s : s[i] = x

AppendIfAbsent(s, x) == IF Contains(s, x) THEN s ELSE Append(s, x)

\* list.remove(x): drops the first occurrence only
RemoveFirst(s, x) ==
    IF ~Contains(s, x) THEN s
    ELSE LET k == CHOOSE i \in DOMAIN s : s[i] = x /\ \A j \in 1..(i - 1) : s[j] # x
         IN  SubSeq(s, 1, k - 1) \o SubSeq(s, k + 1, Len(s))

IsPrefix(s, t) == Len(s) <= Len(t) /\ SubSeq(t, 1, Len(s)) = s

(***************************************************************************)
(* A task map {id: KanbanTask} is a Python dict: a sequence of records     *)
(* with distinct ids, in insertion order.                                  *)
(***************************************************************************)
Keys(m) == {m[i].id : i \in DOMAIN m}

Index(m, id) == CHOOSE i \in DOMAIN m : m[i].id = id /\ \A j \in 1..(i - 1) : m[j].id # id

Get(m, id) == m[Index(m, id)]

\* a map that stores a second record under a key it holds
PutAppend(m, t) == Append(m, t)

Put(m, t) == IF t.id \in Keys(m) THEN [m EXCEPT ![Index(m, t.id)] = t] ELSE Append(m, t)

\* a pop that takes the key out of the link lists of the other records too
PopCascade(m, id) ==
    LET rest == SelectSeq(m, LAMBDA t : t.id # id)
    IN  [i \in DOMAIN rest |->
            [rest[i] EXCEPT !.blocks = SelectSeq(@, LAMBDA x : x # id),
                            !.blocked_by = SelectSeq(@, LAMBDA x : x # id)]]

Pop(m, id) == SelectSeq(m, LAMBDA t : t.id # id)

RECURSIVE PutAll(_, _)
PutAll(m, l) == IF l = <<>> THEN m ELSE PutAll(Put(m, Head(l)), Tail(l))

\* {t["id"]: KanbanTask.from_dict(t) for t in full_data.get("tasks", [])}
FromList(l) == PutAll(<<>>, l)

\* {**current_on_disk_tasks, **new_tasks_map}
MergeMaps(onDisk, mem) == PutAll(onDisk, mem)

\* document d holds a task of this id
Stored(d, id) == id \in Keys(d.tasks)

CountStatus(l, s) == Cardinality({i \in DOMAIN l : l[i].status = s})

(***************************************************************************)
(* The record model: the fields of KanbanTask that the store maintains.    *)
(* title stands for every plain field that update_task sets when the       *)
(* supplied value differs (long_description, url, criticality, ...).       *)
(***************************************************************************)
Entry(event, actor) == [event |-> event, actor |-> actor]

KanbanTask(id, args, actor) ==
    [id |-> id, title |-> args.title, status |-> "Open", assignee |-> NoName,
     is_subtask |-> IF Has(args, "is_subtask") THEN args.is_subtask ELSE FALSE,
     parent_task_id |-> IF Has(args, "parent_task_id") THEN args.parent_task_id ELSE NoId,
     has_subtasks |-> FALSE,
     blocks |-> IF Has(args, "blocks") THEN args.blocks ELSE <<>>,
     blocked_by |-> IF Has(args, "blocked_by") THEN args.blocked_by ELSE <<>>,
     history |-> <<>>]

(***************************************************************************)
(* The enthusiasm fields, which to_dict and from_dict do not copy as they  *)
(* are.  A Python value is a pair: <<"int", n>>, <<"str", s>> or None.     *)
(***************************************************************************)
Int_(n) == <<"int", n>>
Str_(s) == <<"str", s>>
None_ == <<"none", 0>>

\* _map_enthusiasm_to_numeric
MapEnthusiasmToNumeric(is_milestone, enthusiasm_val) ==
    IF is_milestone THEN 0
    ELSE IF enthusiasm_val[1] = "int" THEN enthusiasm_val[2]
    ELSE IF enthusiasm_val = Str_("!!!!!") THEN 3
    ELSE IF enthusiasm_val = Str_("Yay") THEN 2
    ELSE IF enthusiasm_val = Str_("Meh") THEN 1
    ELSE 0

\* _map_enthusiasm_to_display
MapEnthusiasmToDisplay(t) ==
    IF t.is_milestone THEN "N/A"
    ELSE IF t.enthusiasm_raw[1] = "str" THEN t.enthusiasm_raw[2]
    ELSE IF t.enthusiasm_numeric = 3 THEN "!!!!!"
    ELSE IF t.enthusiasm_numeric = 2 THEN "Yay"
    ELSE IF t.enthusiasm_numeric = 1 THEN "Meh"
    ELSE "N/A"

\* KanbanTask.__init__ on the arguments a: tags = None becomes []
TaskInit(a) ==
    [id |-> a.id, title |-> a.title, status |-> a.status, is_milestone |-> a.is_milestone,
     tags |-> IF a.tags = None_ THEN <<>> ELSE a.tags,
     has_subtasks |-> a.has_subtasks,
     enthusiasm_raw |-> a.enthusiasm,
     enthusiasm_numeric |-> MapEnthusiasmToNumeric(a.is_milestone, a.enthusiasm)]

\* to_dict writing the alias the record was given
ToDictAlias(t) ==
    [id |-> t.id, is_milestone |-> t.is_milestone, title |-> t.title,
     enthusiasm |-> IF ~t.is_milestone THEN t.enthusiasm_raw ELSE None_,
     status |-> t.status, tags |-> t.tags, has_subtasks |-> t.has_subtasks]

ToDict(t) ==
    [id |-> t.id, is_milestone |-> t.is_milestone, title |-> t.title,
     enthusiasm |-> IF ~t.is_milestone THEN Int_(t.enthusiasm_numeric) ELSE None_,
     status |-> t.status, tags |-> t.tags, has_subtasks |-> t.has_subtasks]

FromDict(data) ==
    LET enthusiasm_val == data.enthusiasm
        enthusiasm_raw ==
            IF data.is_milestone THEN None_
            ELSE IF enthusiasm_val = Int_(3) THEN Str_("!!!!!")
            ELSE IF enthusiasm_val = Int_(2) THEN Str_("Yay")
            ELSE IF enthusiasm_val = Int_(1) THEN Str_("Meh")
            ELSE enthusiasm_val
    IN  TaskInit([id |-> data.id, title |-> data.title, status |-> data.status,
                  is_milestone |-> data.is_milestone, tags |-> data.tags,
                  has_subtasks |-> data.has_subtasks, enthusiasm |-> enthusiasm_raw])

\* update_task, lines 247-252, on the record t
UpdateEnthusiasm(t, args) ==
    LET cMile == Has(args, "is_milestone") /\ t.is_milestone # args.is_milestone
        t1 == IF cMile
              THEN IF args.is_milestone
                   THEN [t EXCEPT !.is_milestone = TRUE, !.enthusiasm_raw = None_,
                                  !.enthusiasm_numeric = 0]
                   ELSE [t EXCEPT !.is_milestone = FALSE]
              ELSE t
    IN  IF Has(args, "enthusiasm") /\ ~t1.is_milestone
        THEN LET new_numeric == MapEnthusiasmToNumeric(t1.is_milestone, args.enthusiasm)
             IN  IF t1.enthusiasm_numeric # new_numeric
                 THEN [t1 EXCEPT !.enthusiasm_raw = args.enthusiasm,
                                 !.enthusiasm_numeric = new_numeric]
                 ELSE t1
        ELSE t1

NoCodec == [stage |-> "none"]

NoBoard == [stage |-> "none"]

(***************************************************************************)
(* metadata.wip_limits is a dict {status: limit}.                          *)
(***************************************************************************)
NoLimits == [s \in {} |-> 0]

SetLimit(w, s, n) == [x \in (DOMAIN w) \cup {s} |-> IF x = s THEN n ELSE w[x]]

DelLimit(w, s) == [x \in (DOMAIN w) \ {s} |-> w[x]]

\* set_wip_limit storing whatever limit it is given
SetWipLimitStore(wip_limits, status, limit) == SetLimit(wip_limits, status, limit)

\* set_wip_limit, lines 385-389
SetWipLimitCompute(wip_limits, status, limit) ==
    IF limit > 0 THEN SetLimit(wip_limits, status, limit)
    ELSE IF status \in DOMAIN wip_limits THEN DelLimit(wip_limits, status)
    ELSE wip_limits

Metadata(t, w) == [last_sync |-> t, version |-> 1, wip_limits |-> w]

\* the document _ensure_kanban_file creates
InitialData(t) == [metadata |-> Metadata(t, NoLimits), tasks |-> <<>>]

(***************************************************************************)
(* Reciprocal edges.  field is "blocks" or "blocked_by".                   *)
(***************************************************************************)
\* a reciprocal edge that makes a record for an id the map does not hold
LinkAddCreate(m, other, field, id) ==
    IF other \in Keys(m)
    THEN Put(m, [Get(m, other) EXCEPT ![field] = AppendIfAbsent(@, id)])
    ELSE Put(m, [Get(m, id) EXCEPT !.id = other, !.blocks = <<>>, !.blocked_by = <<>>,
                                   ![field] = <<id>>])

\* if (other := current_tasks.get(other_id)) and id not in other.field: other.field.append(id)
LinkAdd(m, other, field, id) ==
    IF other \in Keys(m)
    THEN Put(m, [Get(m, other) EXCEPT ![field] = AppendIfAbsent(@, id)])
    ELSE m

\* if (other := current_tasks.get(other_id)) and id in other.field: other.field.remove(id)
LinkRemove(m, other, field, id) ==
    IF other \in Keys(m)
    THEN Put(m, [Get(m, other) EXCEPT ![field] = RemoveFirst(@, id)])
    ELSE m

\* for other_id in new_task.blocks: ...   (a list, in order)
RECURSIVE LinkAddEach(_, _, _, _)
LinkAddEach(m, others, field, id) ==
    IF others = <<>> THEN m
    ELSE LinkAddEach(LinkAdd(m, Head(others), field, id), Tail(others), field, id)

\* for other_id in new - old: ...   (a set; the iterations touch distinct records)
RECURSIVE LinkAddAll(_, _, _, _)
LinkAddAll(m, others, field, id) ==
    IF others = {} THEN m
    ELSE LET o == CHOOSE x \in others : TRUE
         IN  LinkAddAll(LinkAdd(m, o, field, id), others \ {o}, field, id)

\* for other_id in old - new: ...
RECURSIVE LinkRemoveAll(_, _, _, _)
LinkRemoveAll(m, others, field, id) ==
    IF others = {} THEN m
    ELSE LET o == CHOOSE x \in others : TRUE
         IN  LinkRemoveAll(LinkRemove(m, o, field, id), others \ {o}, field, id)

\* lines 267-273 (field "blocks", mirror "blocked_by") and 274-280 (the converse)
ReplaceLinks(m, id, field, mirror, new) ==
    LET old == Get(m, id)[field]
        m1 == LinkAddAll(m, Elems(new) \ Elems(old), mirror, id)
        m2 == LinkRemoveAll(m1, Elems(old) \ Elems(new), mirror, id)
    IN  Put(m2, [Get(m2, id) EXCEPT ![field] = new])

(***************************************************************************)
(* WIP admission control.                                                  *)
(***************************************************************************)
\* the admission test with the comparison off by one
WipReachedLate(limits, s, count) == s \in DOMAIN limits /\ count > limits[s]

\* if S in wip_limits: if count >= wip_limits[S]: reject
WipReached(limits, s, count) == s \in DOMAIN limits /\ count >= limits[s]

(***************************************************************************)
(* add_task, from the document it read to the map it hands to the stale    *)
(* check.  id is the uuid4 the new KanbanTask draws.                       *)
(***************************************************************************)
AddParent(m, new, actor) ==
    IF /\ new.is_subtask
       /\ new.parent_task_id # NoId
       /\ new.parent_task_id \in Keys(m)
       /\ ~Get(m, new.parent_task_id).has_subtasks
    THEN Put(m, [Get(m, new.parent_task_id) EXCEPT
                    !.has_subtasks = TRUE,
                    !.history = Append(@, Entry(<<"Updated: has_subtasks to True">>, actor))])
    ELSE m

AddCompute(full_data, args, id, actor) ==
    IF WipReached(full_data.metadata.wip_limits, "Open", CountStatus(full_data.tasks, "Open"))
    THEN [outcome |-> "wip", tasks |-> <<>>]
    ELSE LET new == [KanbanTask(id, args, actor) EXCEPT
                        !.history = <<Entry(<<"Created">>, actor)>>]
             m0 == Put(FromList(full_data.tasks), new)
             m1 == LinkAddEach(m0, new.blocks, "blocked_by", id)
             m2 == LinkAddEach(m1, new.blocked_by, "blocks", id)
         IN  [outcome |-> "ok", tasks |-> AddParent(m2, new, actor)]

(***************************************************************************)
(* update_task.                                                            *)
(***************************************************************************)
\* line 234: the admission check runs only for a change of status
NeedsWipCheck(m, args) ==
    Has(args, "status") /\ args.status # Get(m, args.task_id).status

\* lines 236-240: limits from the second read, count from the first load
UpdateWipRejected(m, args, limits) ==
    WipReached(limits, args.status, CountStatus(m, args.status))

\* line 262, not task.assignee: None and the empty string alike
Falsy(name) == name \in {NoName, ""}

\* update_task recording a change of title without assigning it
UpdatePlainNoTitle(m, args, actor) ==
    LET t0 == Get(m, args.task_id)
        cTitle == Has(args, "title") /\ t0.title # args.title
        cStatus == Has(args, "status") /\ t0.status # args.status
        t1 == [t0 EXCEPT !.status = IF cStatus THEN args.status ELSE @]
    IN  [tasks |-> Put(m, t1),
         changes |-> (IF cTitle THEN <<"Title">> ELSE <<>>)
                  \o (IF cStatus THEN <<"Status">> ELSE <<>>)]

\* lines 242-264: the plain fields, in the order of the code
UpdatePlain(m, args, actor) ==
    LET t0 == Get(m, args.task_id)
        cTitle == Has(args, "title") /\ t0.title # args.title
        cStatus == Has(args, "status") /\ t0.status # args.status
        cSub == Has(args, "is_subtask") /\ t0.is_subtask # args.is_subtask
        cParent == Has(args, "parent_task_id") /\ t0.parent_task_id # args.parent_task_id
        cAuto == /\ Has(args, "status") /\ args.status = "InProgress"
                 /\ Falsy(t0.assignee) /\ t0.assignee # actor
        afterAuto == IF cAuto THEN actor ELSE t0.assignee
        cAssignee == Has(args, "assignee") /\ afterAuto # args.assignee
        t1 == [t0 EXCEPT
                 !.title = IF cTitle THEN args.title ELSE @,
                 !.status = IF cStatus THEN args.status ELSE @,
                 !.is_subtask = IF cSub THEN args.is_subtask ELSE @,
                 !.parent_task_id = IF cParent THEN args.parent_task_id ELSE @,
                 !.assignee = IF cAssignee THEN args.assignee ELSE afterAuto]
    IN  [tasks |-> Put(m, t1),
         changes |-> (IF cTitle THEN <<"Title">> ELSE <<>>)
                  \o (IF cStatus THEN <<"Status">> ELSE <<>>)
                  \o (IF cSub THEN <<"Is_subtask">> ELSE <<>>)
                  \o (IF cParent THEN <<"Parent task">> ELSE <<>>)
                  \o (IF cAuto THEN <<"Assignee set">> ELSE <<>>)
                  \o (IF cAssignee THEN <<"Assignee">> ELSE <<>>)]

\* line 265: evaluated on the map as the lines above left it
Blocking(m, id) ==
    {tid \in Elems(Get(m, id).blocked_by) :
        tid \in Keys(m) /\ Get(m, tid).status \notin Finished}

DoneGate(m, args) ==
    Has(args, "status") /\ args.status = "Done" /\ Blocking(m, args.task_id) # {}

\* lines 267-280
UpdateLinks(m, args) ==
    LET id == args.task_id
        cBlocks == Has(args, "blocks") /\ Elems(Get(m, id).blocks) # Elems(args.blocks)
        m1 == IF cBlocks THEN ReplaceLinks(m, id, "blocks", "blocked_by", args.blocks) ELSE m
        cBlockedBy == /\ Has(args, "blocked_by")
                      /\ Elems(Get(m1, id).blocked_by) # Elems(args.blocked_by)
        m2 == IF cBlockedBy
              THEN ReplaceLinks(m1, id, "blocked_by", "blocks", args.blocked_by)
              ELSE m1
    IN  [tasks |-> m2,
         changes |-> (IF cBlocks THEN <<"Blocks">> ELSE <<>>)
                  \o (IF cBlockedBy THEN <<"Blocked_by">> ELSE <<>>)]

\* update_task keeping only the last history entry
UpdateComputeRewrite(m, args, actor) ==
    LET a == UpdatePlain(m, args, actor)
        b == UpdateLinks(a.tasks, args)
        changes == a.changes \o b.changes
        id == args.task_id
    IN  IF DoneGate(a.tasks, args) THEN [outcome |-> "blocked", tasks |-> m]
        ELSE IF changes = <<>> THEN [outcome |-> "nochange", tasks |-> m]
        ELSE [outcome |-> "ok",
              tasks |-> Put(b.tasks, [Get(b.tasks, id) EXCEPT
                           !.history = <<Entry(<<"Updated">> \o changes, actor)>>])]

\* lines 242-286, once admission has passed
UpdateCompute(m, args, actor) ==
    LET a == UpdatePlain(m, args, actor)
        b == UpdateLinks(a.tasks, args)
        changes == a.changes \o b.changes
        id == args.task_id
    IN  IF DoneGate(a.tasks, args) THEN [outcome |-> "blocked", tasks |-> m]
        ELSE IF changes = <<>> THEN [outcome |-> "nochange", tasks |-> m]
        ELSE [outcome |-> "ok",
              tasks |-> Put(b.tasks, [Get(b.tasks, id) EXCEPT
                           !.history = Append(@, Entry(<<"Updated">> \o changes, actor))])]

(***************************************************************************)
(* delete_task.                                                            *)
(***************************************************************************)
\* delete_task clearing the parent's flag without looking for other subtasks
DeleteComputeEager(m, id, actor) ==
    LET task == Get(m, id)
        rest == Pop(m, id)
        pid == task.parent_task_id
    IN  IF task.is_subtask /\ pid # NoId /\ pid \in Keys(rest)
        THEN Put(rest, [Get(rest, pid) EXCEPT
                          !.has_subtasks = FALSE,
                          !.history = Append(@, Entry(<<"Updated: has_subtasks to False">>, actor))])
        ELSE rest

DeleteCompute(m, id, actor) ==
    LET task == Get(m, id)
        rest == Pop(m, id)
        pid == task.parent_task_id
    IN  IF /\ task.is_subtask
           /\ pid # NoId
           /\ pid \in Keys(rest)
           /\ ~\E i \in DOMAIN rest : rest[i].is_subtask /\ rest[i].parent_task_id = pid
        THEN Put(rest, [Get(rest, pid) EXCEPT
                          !.has_subtasks = FALSE,
                          !.history = Append(@, Entry(<<"Updated: has_subtasks to False">>, actor))])
        ELSE rest

(***************************************************************************)
(* _resolve_stale_check.  current_full_data is what its own                *)
(* _read_full_data returned; last_read_metadata is the object's field as   *)
(* that read left it (a list of none or one metadata block: {} is falsy).  *)
(***************************************************************************)
IsNewer(current_full_data, last_read_metadata) ==
    /\ last_read_metadata # <<>>
    /\ current_full_data.metadata.last_sync > last_read_metadata[1].last_sync

\* a stale check that writes the tasks under an empty limit map
ResolveStaleCheckNoLimits(current_full_data, last_read_metadata, new_tasks_map) ==
    [current_full_data EXCEPT !.tasks = new_tasks_map, !.metadata.wip_limits = NoLimits]

\* a stale check that merges whatever the timestamps are
ResolveStaleCheckMerge(current_full_data, last_read_metadata, new_tasks_map) ==
    [current_full_data EXCEPT
        !.tasks = MergeMaps(FromList(current_full_data.tasks), new_tasks_map)]

ResolveStaleCheck(current_full_data, last_read_metadata, new_tasks_map) ==
    IF IsNewer(current_full_data, last_read_metadata)
    THEN [current_full_data EXCEPT
             !.tasks = MergeMaps(FromList(current_full_data.tasks), new_tasks_map)]
    ELSE [current_full_data EXCEPT !.tasks = new_tasks_map]

(***************************************************************************)
(* The processes.  pc is the file access a process makes next:             *)
(*   "idle"     no operation under way (op, args, outcome: the last one)   *)
(*   "wip"      update_task's read of the limits (line 235)                *)
(*   "stale"    the read of _resolve_stale_check (line 173)                *)
(*   "temp"     mkstemp, the last_sync stamp and json.dump (lines 148-152) *)
(*   "replace"  shutil.move (line 153)                                     *)
(* outcome is "ok" until the operation is rejected ("notfound", "wip",     *)
(* "blocked"), finds nothing to change ("nochange") or its save raises     *)
(* ("writefail").  pre, reread and replaced record the documents the        *)
(* operation read first, read in the stale check and replaced on disk,     *)
(* merged whether the stale check took its merge branch, prelog the        *)
(* recovery log when the operation started; the operations do not read     *)
(* them.  fd: the process holds the document file open for writing (see    *)
(* _ensure_kanban_file below); torn: a read of the operation found no      *)
(* document in the file; listed: the ids of the tasks list_tasks returned.  *)
(***************************************************************************)
NoArgs == [task_id |-> NoId]

IdleProc ==
    [pc |-> "idle", op |-> "none", args |-> NoArgs, id |-> NoId, tasks |-> <<>>,
     last_read_metadata |-> <<>>, data |-> InitialData(0), outcome |-> "none",
     pre |-> InitialData(0), reread |-> InitialData(0), replaced |-> InitialData(0),
     merged |-> FALSE, prelog |-> <<>>, fd |-> FALSE, torn |-> FALSE, listed |-> {}]

\* _read_full_data parsing a document out of a file that holds none
ReadFullDataAnyway(d) ==
    [full_data |-> d, last_read_metadata |-> <<d.metadata>>, parsed |-> file = "whole"]

\* _read_full_data: the document and the field it sets, for a file that
\* holds a document; the empty structure of line 145 and {} for a file that
\* does not exist or does not parse
ReadFullData(d) ==
    IF file = "whole"
    THEN [full_data |-> d, last_read_metadata |-> <<d.metadata>>, parsed |-> TRUE]
    ELSE [full_data |-> InitialData(now), last_read_metadata |-> <<>>, parsed |-> FALSE]

\* id: the task the operation names, or the id of the task add_task creates
Begin(p, op, args, id, r) ==
    [procs[p] EXCEPT !.pc = "idle", !.op = op, !.args = args, !.id = id, !.tasks = <<>>,
                     !.last_read_metadata = r.last_read_metadata,
                     !.outcome = "ok", !.pre = r.full_data,
                     !.reread = r.full_data, !.replaced = r.full_data,
                     !.merged = FALSE, !.prelog = recovery, !.torn = ~r.parsed,
                     !.listed = {}]

CanStart(p) == procs[p].pc = "idle" /\ now <= MaxClock

Init ==
    /\ file = "whole"
    /\ disk = InitialData(0)
    /\ tmp = {}
    /\ recovery = <<>>
    /\ now = 1
    /\ nextId = 1
    /\ procs = [p \in Procs |-> IdleProc]
    /\ codec = NoCodec
    /\ board = NoBoard

\* add_task, lines 191-218
AddLoad(p, inputs) ==
    /\ CanStart(p)
    /\ nextId <= MaxTasks
    /\ \E args \in inputs :
         LET r == ReadFullData(disk)
             c == AddCompute(r.full_data, args, nextId, Actor)
             b == Begin(p, "add_task", args, nextId, r)
         IN  IF c.outcome = "ok"
             THEN /\ procs' = [procs EXCEPT ![p] = [b EXCEPT !.pc = "stale", !.tasks = c.tasks]]
                  /\ nextId' = nextId + 1
             ELSE /\ procs' = [procs EXCEPT ![p] = [b EXCEPT !.outcome = c.outcome]]
                  /\ nextId' = nextId
    /\ UNCHANGED <<board, codec, file, disk, tmp, recovery, now>>

\* update_task reporting a rejection and saving the map all the same
UpdatedNoAbort(b, m, actor) ==
    LET c == UpdateCompute(m, b.args, actor)
    IN  IF c.outcome \in {"ok", "blocked"}
        THEN [b EXCEPT !.pc = "stale", !.outcome = c.outcome,
                       !.tasks = UpdateLinks(UpdatePlain(m, b.args, actor).tasks, b.args).tasks]
        ELSE [b EXCEPT !.pc = "idle", !.tasks = <<>>, !.outcome = c.outcome]

\* what update_task does once it has the limits, or needs none
Updated(b, m, actor) ==
    LET c == UpdateCompute(m, b.args, actor)
    IN  IF c.outcome = "ok"
        THEN [b EXCEPT !.pc = "stale", !.tasks = c.tasks]
        ELSE [b EXCEPT !.pc = "idle", !.tasks = <<>>, !.outcome = c.outcome]

\* update_task, lines 229-234 (and on to 286 when the status does not change)
UpdLoad(p, inputs) ==
    /\ CanStart(p)
    /\ \E args \in inputs :
         LET r == ReadFullData(disk)
             m == FromList(r.full_data.tasks)
             b == Begin(p, "update_task", args, args.task_id, r)
         IN  procs' = [procs EXCEPT ![p] =
                 IF args.task_id \notin Keys(m) THEN [b EXCEPT !.outcome = "notfound"]
                 ELSE IF NeedsWipCheck(m, args) THEN [b EXCEPT !.pc = "wip", !.tasks = m]
                 ELSE Updated(b, m, Actor)]
    /\ UNCHANGED <<board, codec, file, disk, tmp, recovery, now, nextId>>

\* update_task, lines 235-286
UpdWip(p) ==
    /\ procs[p].pc = "wip"
    /\ LET r == ReadFullData(disk)
           b == [procs[p] EXCEPT !.last_read_metadata = r.last_read_metadata,
                                 !.torn = @ \/ ~r.parsed]
       IN  procs' = [procs EXCEPT ![p] =
               IF UpdateWipRejected(b.tasks, b.args, r.full_data.metadata.wip_limits)
               THEN [b EXCEPT !.pc = "idle", !.tasks = <<>>, !.outcome = "wip"]
               ELSE Updated(b, b.tasks, Actor)]
    /\ UNCHANGED <<board, codec, file, disk, tmp, recovery, now, nextId>>

\* delete_task, lines 289-295 and 299
DelLoad(p, inputs) ==
    /\ CanStart(p)
    /\ \E id \in inputs :
         LET r == ReadFullData(disk)
             m == FromList(r.full_data.tasks)
             b == Begin(p, "delete_task", [task_id |-> id], id, r)
         IN  procs' = [procs EXCEPT ![p] =
                 IF id \in Keys(m)
                 THEN [b EXCEPT !.pc = "stale", !.tasks = DeleteCompute(m, id, Actor)]
                 ELSE [b EXCEPT !.outcome = "notfound"]]
    /\ UNCHANGED <<board, codec, file, disk, tmp, recovery, now, nextId>>

\* set_wip_limit, lines 383-391: it saves the document it read, no stale check
SetWipLimit(p, inputs) ==
    /\ CanStart(p)
    /\ \E a \in inputs :
         LET r == ReadFullData(disk)
             w == r.full_data.metadata.wip_limits
             w1 == SetWipLimitCompute(w, a.status, a.limit)
             b == Begin(p, "set_wip_limit", a, NoId, r)
         IN  procs' = [procs EXCEPT ![p] =
                 [b EXCEPT !.pc = "temp",
                           !.data = [r.full_data EXCEPT !.metadata.wip_limits = w1]]]
    /\ UNCHANGED <<board, codec, file, disk, tmp, recovery, now, nextId>>

\* _resolve_stale_check, lines 173-185
Stale(p) ==
    /\ procs[p].pc = "stale"
    /\ LET r == ReadFullData(disk)
       IN  procs' = [procs EXCEPT ![p] =
               [@ EXCEPT !.pc = "temp",
                         !.last_read_metadata = r.last_read_metadata,
                         !.reread = r.full_data,
                         !.torn = @ \/ ~r.parsed,
                         !.merged = IsNewer(r.full_data, r.last_read_metadata),
                         !.data = ResolveStaleCheck(r.full_data, r.last_read_metadata,
                                                    procs[p].tasks)]]
    /\ UNCHANGED <<board, codec, file, disk, tmp, recovery, now, nextId>>

Stamped(full_data, t) == [full_data EXCEPT !.metadata.last_sync = t]

\* _write_full_data, lines 148-152
WriteTemp(p) ==
    /\ procs[p].pc = "temp"
    /\ procs' = [procs EXCEPT ![p] = [@ EXCEPT !.pc = "replace", !.data = Stamped(@, now)]]
    /\ tmp' = tmp \cup {p}
    /\ now' = now + 1
    /\ UNCHANGED <<board, codec, file, disk, recovery, nextId>>

\* _write_full_data, lines 153-154
Replace(p) ==
    /\ procs[p].pc = "replace"
    /\ file' = "whole"
    /\ disk' = procs[p].data
    /\ tmp' = tmp \ {p}
    /\ procs' = [q \in Procs |->
           IF q = p
           THEN [procs[p] EXCEPT !.pc = "idle", !.tasks = <<>>, !.replaced = disk,
                                 !.last_read_metadata = <<procs[p].data.metadata>>]
           ELSE [procs[q] EXCEPT !.fd = FALSE]]
    /\ UNCHANGED <<board, codec, recovery, now, nextId>>

\* a failed save that leaves its temporary file behind
FailedKeepsTemp(p, full_data) ==
    /\ Len(recovery) < MaxFail
    /\ tmp' = tmp \cup {p}
    /\ recovery' = Append(recovery, full_data)
    /\ procs' = [procs EXCEPT ![p] =
           [@ EXCEPT !.pc = "idle", !.tasks = <<>>, !.data = full_data,
                     !.outcome = "writefail"]]

\* lines 155-159 and _log_to_recovery: the temporary file is removed, the
\* document is appended to the recovery log, the exception goes to the caller
Failed(p, full_data) ==
    /\ Len(recovery) < MaxFail
    /\ tmp' = tmp \ {p}
    /\ recovery' = Append(recovery, full_data)
    /\ procs' = [procs EXCEPT ![p] =
           [@ EXCEPT !.pc = "idle", !.tasks = <<>>, !.data = full_data,
                     !.outcome = "writefail"]]

\* json.dump raises
WriteTempFail(p) ==
    /\ procs[p].pc = "temp"
    /\ Failed(p, Stamped(procs[p].data, now))
    /\ now' = now + 1
    /\ UNCHANGED <<board, codec, file, disk, nextId>>

\* shutil.move raises
ReplaceFail(p) ==
    /\ procs[p].pc = "replace"
    /\ Failed(p, procs[p].data)
    /\ UNCHANGED <<board, codec, file, disk, now, nextId>>

(***************************************************************************)
(* Spec: two processes, each running add_task, update_task (title or       *)
(* status) and delete_task on any id handed out so far; saves succeed.     *)
(***************************************************************************)
Known == 1..(nextId - 1)

PlainAdds == {[title |-> "a"]}

PlainUpdates ==
    {[task_id |-> i, title |-> "b"] : i \in Known}
        \cup {[task_id |-> i, status |-> "InProgress"] : i \in Known}

Save(p) == Stale(p) \/ WriteTemp(p) \/ Replace(p)

Racing == now <= RaceClock

Next ==
    \E p \in Procs :
        \/ Racing /\ nextId <= RaceTasks /\ AddLoad(p, PlainAdds)
        \/ Racing /\ UpdLoad(p, PlainUpdates)
        \/ UpdWip(p)
        \/ Racing /\ DelLoad(p, Known)
        \/ Save(p)

Spec == Init /\ [][Next]_vars

(***************************************************************************)
(* Properties of Spec.  Saved(p): p has completed an operation by          *)
(* replacing the document; Latest(p): no save has followed it.             *)
(***************************************************************************)
Saved(p) ==
    /\ procs[p].pc = "idle"
    /\ procs[p].op \in {"add_task", "update_task", "delete_task"}
    /\ procs[p].outcome = "ok"

Latest(p) == Saved(p) /\ disk = procs[p].data

\* C1: when a save by another process came between the load and the stale
\* check of a completed add_task / update_task / delete_task, the stale
\* check found the document on disk newer than the one loaded and the
\* document written holds every task that was on disk at the stale check.
C1_MergeKeepsDiskTasks ==
    \A p \in Procs :
        (Saved(p) /\ procs[p].reread # procs[p].pre) =>
            /\ procs[p].merged
            /\ Keys(procs[p].reread.tasks) \subseteq Keys(procs[p].data.tasks)

\* the operation of p is an update of the title alone
TitleOnly(p) == procs[p].op = "update_task" /\ DOMAIN procs[p].args = {"task_id", "title"}

\* p loaded A as Open, another process saved A as InProgress before p's
\* stale check, and p's save of a new title is the document on disk
Overwrote(p) ==
    /\ Latest(p) /\ TitleOnly(p)
    /\ Stored(procs[p].pre, procs[p].id)
    /\ Get(procs[p].pre.tasks, procs[p].id).status = "Open"
    /\ Get(procs[p].pre.tasks, procs[p].id).title # procs[p].args.title
    /\ Stored(procs[p].reread, procs[p].id)
    /\ Get(procs[p].reread.tasks, procs[p].id).status = "InProgress"

\* C6: in the document of that scenario A has the new title and the status
\* Open of the updating process's load, with that load's history and one
\* more entry: the other process's InProgress is lost.
C6_WholeRecordOverwrite ==
    \A p \in Procs :
        Overwrote(p) =>
            LET mine == Get(procs[p].pre.tasks, procs[p].id)
                a == Get(disk.tasks, procs[p].id)
            IN  /\ a.title = procs[p].args.title
                /\ a.status = "Open"
                /\ a = [mine EXCEPT !.title = procs[p].args.title,
                                    !.history = Append(@, Entry(<<"Updated", "Title">>, Actor))]

C6_Witness == \E p \in Procs : Overwrote(p)

\* the histories of the records of document d are kept by document e
HistoryKept(d, e) ==
    \A id \in Keys(d.tasks) \cap Keys(e.tasks) :
        IsPrefix(Get(d.tasks, id).history, Get(e.tasks, id).history)

\* C7 as stated: every save keeps, for every record in the document before
\* and after it, the history before as a prefix of the history after.
C7_AppendOnlyAlways ==
    \A p \in Procs : Saved(p) => HistoryKept(procs[p].replaced, procs[p].data)

\* C7: a save that replaces the very document its operation loaded keeps,
\* for every record in the document before and after it, the history before
\* as a prefix of the history after.
C7_AppendOnlyUnraced ==
    \A p \in Procs :
        (Saved(p) /\ procs[p].replaced = procs[p].pre)
            => HistoryKept(procs[p].replaced, procs[p].data)

\* an update that appended to a history of two entries, in a behaviour
\* where the other process has saved too
C7_Witness ==
    \E p \in Procs, q \in Procs :
        /\ p # q /\ Saved(q)
        /\ Latest(p) /\ procs[p].op = "update_task"
        /\ procs[p].replaced = procs[p].pre
        /\ Len(Get(disk.tasks, procs[p].id).history) >= 3

(***************************************************************************)
(* SpecGate: one process; tasks are created with or without a blocker,     *)
(* moved to InProgress or Done and deleted, limits are set and removed.    *)
(***************************************************************************)
Me == "p1"

Completed == procs[Me].pc = "idle" /\ procs[Me].op # "none"

GateAdds == {[title |-> "a"]} \cup {[title |-> "a", blocked_by |-> <<i>>] : i \in Known}

GateUpdates == {[task_id |-> i, status |-> s] : i \in Known, s \in {"InProgress", "Done"}}

GateLimits ==
    {[status |-> "Open", limit |-> 2], [status |-> "InProgress", limit |-> 1],
     [status |-> "InProgress", limit |-> 2], [status |-> "InProgress", limit |-> 0],
     [status |-> "Done", limit |-> 1]}

NextGate ==
    \/ AddLoad(Me, GateAdds)
    \/ UpdLoad(Me, GateUpdates)
    \/ UpdWip(Me)
    \/ DelLoad(Me, Known)
    \/ SetWipLimit(Me, GateLimits)
    \/ Save(Me)

SpecGate == Init /\ [][NextGate]_vars

(***************************************************************************)
(* Properties of SpecGate.  They speak of the operation the process has    *)
(* just completed: Pre is the document it loaded, disk the document it     *)
(* left.                                                                   *)
(***************************************************************************)
Op == procs[Me].op
Args == procs[Me].args
Outcome == procs[Me].outcome
Pre == procs[Me].pre
PreLimits == Pre.metadata.wip_limits
Rejections == {"notfound", "wip", "blocked"}

\* the completed operation is a status change: a creation, or an update
\* naming a stored task and a status other than the one it has
IsMove ==
    /\ Completed
    /\ \/ Op = "add_task"
       \/ /\ Op = "update_task"
          /\ Stored(Pre, Args.task_id)
          /\ Has(Args, "status")
          /\ Get(Pre.tasks, Args.task_id).status # Args.status

Target == IF Op = "add_task" THEN "Open" ELSE Args.status

\* the stored tasks in the target status, the moved one excluded
Others ==
    Cardinality({i \in DOMAIN Pre.tasks :
        Pre.tasks[i].status = Target /\ Pre.tasks[i].id # procs[Me].id})

\* C3: with a limit N > 0 on status S, a move into S while fewer than N
\* other stored tasks are in S passes admission and is committed (the task
\* is stored in S) unless the Done gate rejects it; with N others in S it is
\* rejected with the admission error and the document on disk is unchanged.
C3_WipAdmission ==
    (IsMove /\ Target \in DOMAIN PreLimits) =>
        /\ PreLimits[Target] > 0
        /\ IF Others < PreLimits[Target]
           THEN \/ /\ Outcome = "ok"
                   /\ Stored(disk, procs[Me].id)
                   /\ Get(disk.tasks, procs[Me].id).status = Target
                \/ Outcome = "blocked" /\ Target = "Done"
           ELSE Outcome = "wip" /\ disk = Pre

\* the second task moved into InProgress under a limit of 2 is admitted
C3_Witness ==
    /\ IsMove /\ Op = "update_task" /\ Target = "InProgress"
    /\ "InProgress" \in DOMAIN PreLimits
    /\ PreLimits["InProgress"] = 2
    /\ Others = 1
    /\ Outcome = "ok"

\* under a limit of 1 the second is rejected
C3_WitnessRejected ==
    /\ IsMove /\ Op = "update_task" /\ Target = "InProgress"
    /\ "InProgress" \in DOMAIN PreLimits
    /\ PreLimits["InProgress"] = 1
    /\ Others = 1
    /\ Outcome = "wip"

\* C9: update_task and delete_task naming an absent id end in NotFound;
\* an operation that ends in NotFound, in the admission error or in the
\* Done-gate error leaves the document on disk, last_sync included, as it
\* was when the operation started.
C9_RejectedNoWrite ==
    Completed =>
        /\ (Op \in {"update_task", "delete_task"} /\ ~Stored(Pre, Args.task_id))
              => Outcome = "notfound"
        /\ Outcome \in Rejections => disk = Pre /\ tmp = {}

\* a Done transition rejected for an unfinished blocker, after earlier saves
C9_Witness ==
    /\ Completed /\ Op = "update_task" /\ Outcome = "blocked"
    /\ disk.metadata.last_sync > 1
    /\ Blocking(disk.tasks, Args.task_id) # {}

C9_WitnessNotFound ==
    Completed /\ Op = "delete_task" /\ Outcome = "notfound" /\ disk.tasks # <<>>

C9_WitnessWip == Completed /\ Op = "add_task" /\ Outcome = "wip"

(***************************************************************************)
(* SpecSub: one process; tasks are created as plain tasks or as subtasks   *)
(* of a stored or deleted task, made subtasks or plain tasks by            *)
(* update_task, and deleted.                                               *)
(***************************************************************************)
SubAdds ==
    {[title |-> "a"]}
        \cup {[title |-> "a", is_subtask |-> TRUE, parent_task_id |-> j] : j \in Known}

SubUpdates ==
    {[task_id |-> i, is_subtask |-> TRUE, parent_task_id |-> j] : i \in Known, j \in Known}
        \cup {[task_id |-> i, is_subtask |-> FALSE] : i \in Known}

NextSub ==
    \/ AddLoad(Me, SubAdds)
    \/ UpdLoad(Me, SubUpdates)
    \/ DelLoad(Me, Known)
    \/ Save(Me)

SpecSub == Init /\ [][NextSub]_vars

\* the records of document d that are subtasks of p
SubtasksOf(d, p) ==
    {d.tasks[i].id : i \in {k \in DOMAIN d.tasks :
        d.tasks[k].is_subtask /\ d.tasks[k].parent_task_id = p}}

\* C5: after every completed operation, a stored record has has_subtasks
\* set exactly when another stored record is a subtask of it.
C5_HasSubtasksExact ==
    Completed =>
        \A i \in DOMAIN disk.tasks :
            disk.tasks[i].has_subtasks <=> (SubtasksOf(disk, disk.tasks[i].id) \ {disk.tasks[i].id} # {})

\* the completed operation deleted stored subtask X of stored parent P # X
DeletedSubtask(x, p) ==
    /\ Completed /\ Op = "delete_task" /\ Outcome = "ok" /\ Args.task_id = x
    /\ Stored(Pre, x) /\ Stored(Pre, p) /\ x # p
    /\ x \in SubtasksOf(Pre, p)

FlagCleared == Entry(<<"Updated: has_subtasks to False">>, Actor)

\* C10: deleting the only subtask X of a stored parent P whose has_subtasks
\* is true leaves P stored with has_subtasks false and one more history
\* entry, which records has_subtasks becoming False; when another subtask
\* of P remains, the stored P is unchanged.
C10_DeleteLastSubtask ==
    \A x \in Known, p \in Known :
        DeletedSubtask(x, p) =>
            /\ ~Stored(disk, x)
            /\ Stored(disk, p)
            /\ (SubtasksOf(Pre, p) = {x} /\ Get(Pre.tasks, p).has_subtasks)
                  => /\ ~Get(disk.tasks, p).has_subtasks
                     /\ Get(disk.tasks, p).history
                          = Append(Get(Pre.tasks, p).history, FlagCleared)
                     /\ Get(disk.tasks, p)
                          = [Get(Pre.tasks, p) EXCEPT
                               !.has_subtasks = FALSE, !.history = Append(@, FlagCleared)]
            /\ (SubtasksOf(Pre, p) \ {x} # {})
                  => Get(disk.tasks, p) = Get(Pre.tasks, p)

\* the only subtask of a parent is deleted, the parent's history holding
\* its creation and both changes of the flag
C10_Witness ==
    \E x \in Known, p \in Known :
        /\ DeletedSubtask(x, p)
        /\ SubtasksOf(Pre, p) = {x}
        /\ Get(Pre.tasks, p).has_subtasks
        /\ Len(Get(disk.tasks, p).history) >= 3

\* one of several subtasks is deleted
C10_WitnessRemains ==
    \E x \in Known, p \in Known :
        /\ DeletedSubtask(x, p)
        /\ SubtasksOf(Pre, p) \ {x, p} # {}
        /\ Get(Pre.tasks, p).has_subtasks

(***************************************************************************)
(* SpecLinks: one process; tasks are created and updated with any list of  *)
(* known ids (repetitions and the task's own id included) as blocks or     *)
(* blocked_by, moved to Done, and deleted.                                 *)
(***************************************************************************)
IdLists == UNION {[1..n -> Known] : n \in 0..MaxLinks}

LinkAdds ==
    {[title |-> "a"]}
        \cup {[title |-> "a", blocks |-> l] : l \in IdLists \ {<<>>}}
        \cup {[title |-> "a", blocked_by |-> l] : l \in IdLists \ {<<>>}}

LinkUpdates ==
    {[task_id |-> i, blocks |-> l] : i \in Known, l \in IdLists}
        \cup {[task_id |-> i, blocked_by |-> l] : i \in Known, l \in IdLists}
        \cup {[task_id |-> i, status |-> "Done"] : i \in Known}

Linking == now <= LinkClock

NextLinks ==
    \/ Linking /\ nextId <= LinkTasks /\ AddLoad(Me, LinkAdds)
    \/ Linking /\ UpdLoad(Me, LinkUpdates)
    \/ UpdWip(Me)
    \/ Linking /\ DelLoad(Me, Known)
    \/ Save(Me)

SpecLinks == Init /\ [][NextLinks]_vars

Symmetric(d) ==
    \A i, j \in DOMAIN d.tasks :
        Contains(d.tasks[i].blocks, d.tasks[j].id)
            <=> Contains(d.tasks[j].blocked_by, d.tasks[i].id)

\* C2: after every completed operation, for any two stored records A and B,
\* B is in A.blocks exactly when A is in B.blocked_by.
C2_LinkSymmetry == Completed => Symmetric(disk)

\* the completed operation asked to move a stored task, not Done so far, to Done
AskedDone ==
    /\ Completed /\ Op = "update_task" /\ Has(Args, "status") /\ Args.status = "Done"
    /\ Stored(Pre, Args.task_id)
    /\ Get(Pre.tasks, Args.task_id).status # "Done"

\* C4: moving a task to Done is rejected, the task staying as it is, while
\* its blocked_by names a stored record that is neither Done nor Archived,
\* and succeeds, the stored status becoming Done, when it names none.
C4_DoneGating ==
    AskedDone =>
        IF Blocking(Pre.tasks, Args.task_id) # {}
        THEN Outcome = "blocked" /\ disk = Pre
        ELSE Outcome = "ok" /\ Get(disk.tasks, Args.task_id).status = "Done"

(***************************************************************************)
(* SpecFail: one process; tasks are created, retitled, moved and deleted,  *)
(* limits are set, and a save may fail while it serializes or while it     *)
(* replaces the document.                                                  *)
(***************************************************************************)
FailLimits == {[status |-> "InProgress", limit |-> 1]}

NextFail ==
    \/ AddLoad(Me, PlainAdds)
    \/ UpdLoad(Me, PlainUpdates)
    \/ UpdWip(Me)
    \/ DelLoad(Me, Known)
    \/ SetWipLimit(Me, FailLimits)
    \/ Save(Me)
    \/ WriteTempFail(Me)
    \/ ReplaceFail(Me)

SpecFail == Init /\ [][NextFail]_vars

ShareLimits == {[status |-> "InProgress", limit |-> 1], [status |-> "InProgress", limit |-> 0]}

ShareUpdates == {[task_id |-> i, title |-> "b"] : i \in Known}

NextShare ==
    \E p \in Procs :
        \/ Racing /\ nextId <= RaceTasks /\ AddLoad(p, PlainAdds)
        \/ Racing /\ UpdLoad(p, ShareUpdates)
        \/ Racing /\ DelLoad(p, Known)
        \/ Racing /\ SetWipLimit(p, ShareLimits)
        \/ Save(p)

SpecShare == Init /\ [][NextShare]_vars

Distinct(l) == \A i, j \in DOMAIN l : l[i].id = l[j].id => i = j

\* C11: no document on disk, and no document a process is about to write,
\* holds two records of the same id; the id add_task gave its new record
\* is in neither the document it loaded nor the one its stale check read.
C11_IdsUnique ==
    /\ Distinct(disk.tasks)
    /\ \A p \in Procs :
          /\ procs[p].pc \in {"temp", "replace"} => Distinct(procs[p].data.tasks)
          /\ (procs[p].op = "add_task" /\ procs[p].outcome = "ok" /\ procs[p].pc # "stale")
                => /\ procs[p].id \notin Keys(procs[p].pre.tasks)
                   /\ procs[p].id \notin Keys(procs[p].reread.tasks)

\* two tasks are stored; one process has saved an update of one of them
\* over a limit the other process set while the update was under way
C11_Witness ==
    \E p \in Procs, q \in Procs :
        /\ p # q
        /\ procs[q].op = "set_wip_limit" /\ procs[q].pc = "idle"
        /\ procs[p].op = "update_task" /\ Latest(p)
        /\ procs[p].reread # procs[p].pre
        /\ Len(disk.tasks) = 2
        /\ "InProgress" \in DOMAIN disk.metadata.wip_limits

(***************************************************************************)
(* SpecBoot: two processes started on a workspace without tasks.json.      *)
(* ClawKanban.__init__ runs _ensure_kanban_file, cut at its file accesses: *)
(*   "boot"    os.path.exists (line 133)                                   *)
(*   "create"  open(KANBAN_FILE, 'w'): creates the file, or truncates the  *)
(*             one another process has created since (line 135)            *)
(*   "dump"    json.dump and the close of the file (line 135)              *)
(* A later invocation by the same process finds the file and skips them.   *)
(***************************************************************************)
InitBoot ==
    /\ file = "missing"
    /\ disk = InitialData(0)
    /\ tmp = {}
    /\ recovery = <<>>
    /\ now = 1
    /\ nextId = 1
    /\ procs = [p \in Procs |-> [IdleProc EXCEPT !.pc = "boot"]]
    /\ codec = NoCodec
    /\ board = NoBoard

EnsureExists(p) ==
    /\ procs[p].pc = "boot"
    /\ IF file = "missing"
       THEN /\ procs' = [procs EXCEPT ![p] = [@ EXCEPT !.pc = "create", !.data = InitialData(now)]]
            /\ now' = now + 1
       ELSE /\ procs' = [procs EXCEPT ![p] = [@ EXCEPT !.pc = "idle"]]
            /\ now' = now
    /\ UNCHANGED <<board, codec, file, disk, tmp, recovery, nextId>>

\* the file is empty from here until a process writes into it
EnsureOpen(p) ==
    /\ procs[p].pc = "create"
    /\ file' = "partial"
    /\ disk' = InitialData(0)
    /\ procs' = [procs EXCEPT ![p] = [@ EXCEPT !.pc = "dump", !.fd = TRUE]]
    /\ UNCHANGED <<board, codec, tmp, recovery, now, nextId>>

\* the write reaches tasks.json unless a save has replaced it since the open
EnsureDump(p) ==
    /\ procs[p].pc = "dump"
    /\ IF procs[p].fd
       THEN file' = "whole" /\ disk' = procs[p].data
       ELSE UNCHANGED <<file, disk>>
    /\ procs' = [procs EXCEPT ![p] = [@ EXCEPT !.pc = "idle", !.fd = FALSE]]
    /\ UNCHANGED <<board, codec, tmp, recovery, now, nextId>>

EnsureKanbanFile(p) == EnsureExists(p) \/ EnsureOpen(p) \/ EnsureDump(p)

NextBoot ==
    \E p \in Procs :
        \/ EnsureKanbanFile(p)
        \/ Racing /\ nextId <= RaceTasks /\ AddLoad(p, PlainAdds)
        \/ Racing /\ UpdLoad(p, ShareUpdates)
        \/ Racing /\ DelLoad(p, Known)
        \/ Save(p)

SpecBoot == InitBoot /\ [][NextBoot]_vars

\* C12: no read of the document file by an operation finds the file without
\* a complete document in it.
C12_NoPartialRead == \A p \in Procs : ~procs[p].torn

(***************************************************************************)
(* list_tasks, lines 333-345: the status filter, then the filters on the   *)
(* parent id and on the subtask flag.  The record model has no tags,       *)
(* creator, text or sort keys: the result is the set of the ids listed.    *)
(***************************************************************************)
\* a status filter that applies the default exclusion to an explicit set too
StatusFilterFlags(tasks, args) ==
    LET kept == IF Has(args, "status_filter") THEN Elems(args.status_filter) ELSE Statuses
    IN  SelectSeq(tasks, LAMBDA t :
            /\ t.status \in kept
            /\ (args.include_done \/ t.status # "Done")
            /\ (args.include_archived \/ t.status # "Archived"))

\* lines 334-337
StatusFilter(tasks, args) ==
    IF ~Has(args, "status_filter")
    THEN LET t1 == IF ~args.include_done
                   THEN SelectSeq(tasks, LAMBDA t : t.status # "Done") ELSE tasks
         IN  IF ~args.include_archived
             THEN SelectSeq(t1, LAMBDA t : t.status # "Archived") ELSE t1
    ELSE SelectSeq(tasks, LAMBDA t : t.status \in Elems(args.status_filter))

\* lines 344-345
OtherFilters(tasks, args) ==
    LET t1 == IF Has(args, "parent_task_id_filter")
              THEN SelectSeq(tasks, LAMBDA t : t.parent_task_id = args.parent_task_id_filter)
              ELSE tasks
    IN  IF Has(args, "is_subtask_filter")
        THEN SelectSeq(t1, LAMBDA t : t.is_subtask = args.is_subtask_filter)
        ELSE t1

ListCompute(m, args) == Keys(OtherFilters(StatusFilter(m, args), args))

ListLoad(p, inputs) ==
    /\ CanStart(p)
    /\ \E args \in inputs :
         LET r == ReadFullData(disk)
             b == Begin(p, "list_tasks", args, NoId, r)
         IN  procs' = [procs EXCEPT ![p] =
                 [b EXCEPT !.listed = ListCompute(FromList(r.full_data.tasks), args)]]
    /\ UNCHANGED <<board, codec, file, disk, tmp, recovery, now, nextId>>

(***************************************************************************)
(* SpecList: one process; tasks are created as plain tasks or subtasks,    *)
(* moved to any status, and the board is listed under every combination of *)
(* the status arguments with one of the other filters.                     *)
(***************************************************************************)
ListAdds == {[title |-> "a"], [title |-> "a", is_subtask |-> TRUE, parent_task_id |-> 1]}

ListUpdates ==
    {[task_id |-> i, status |-> s] : i \in Known, s \in {"Done", "Archived", "Gutter"}}

StatusArgs ==
    {[include_done |-> d, include_archived |-> a] : d \in BOOLEAN, a \in BOOLEAN}
        \cup {[include_done |-> d, include_archived |-> a, status_filter |-> f] :
                 d \in BOOLEAN, a \in BOOLEAN,
                 f \in {<<>>, <<"Done">>, <<"Open", "Archived">>}}

ListInputs ==
    StatusArgs
        \cup {[x \in DOMAIN a \cup {"is_subtask_filter"} |->
                 IF x = "is_subtask_filter" THEN TRUE ELSE a[x]] : a \in StatusArgs}
        \cup {[x \in DOMAIN a \cup {"parent_task_id_filter"} |->
                 IF x = "parent_task_id_filter" THEN 1 ELSE a[x]] : a \in StatusArgs}

Listing == now <= ListClock

NextList ==
    \/ Listing /\ nextId <= ListMax /\ AddLoad(Me, ListAdds)
    \/ Listing /\ UpdLoad(Me, ListUpdates)
    \/ UpdWip(Me)
    \/ ListLoad(Me, ListInputs)
    \/ Save(Me)

SpecList == Init /\ [][NextList]_vars

Listed == Completed /\ Op = "list_tasks"

\* record t passes the filters of the call other than the status filter
PassesOthers(t) ==
    /\ Has(Args, "parent_task_id_filter") => t.parent_task_id = Args.parent_task_id_filter
    /\ Has(Args, "is_subtask_filter") => t.is_subtask = Args.is_subtask_filter

\* the ids of the stored tasks in one of the statuses ss that pass the other filters
Expected(ss) ==
    {Pre.tasks[i].id : i \in {k \in DOMAIN Pre.tasks :
        Pre.tasks[k].status \in ss /\ PassesOthers(Pre.tasks[k])}}

\* C13: list_tasks without status_filter and with neither include flag
\* returns the stored tasks that are not Done or Archived and pass the other
\* filters; with a status_filter it returns the stored tasks whose status is
\* in the filter and that pass the other filters, whatever the include flags.
C13_StatusFilter ==
    Listed =>
        /\ (~Has(Args, "status_filter") /\ ~Args.include_done /\ ~Args.include_archived)
              => procs[Me].listed = Expected(Statuses \ {"Done", "Archived"})
        /\ Has(Args, "status_filter")
              => procs[Me].listed = Expected(Elems(Args.status_filter))

\* status_filter = [Done] with both include flags unset lists the Done task
\* of a board that has an Open task too
C13_Witness ==
    /\ Listed
    /\ Has(Args, "status_filter") /\ Args.status_filter = <<"Done">>
    /\ ~Args.include_done /\ ~Args.include_archived
    /\ DOMAIN Args = {"status_filter", "include_done", "include_archived"}
    /\ procs[Me].listed # {}
    /\ \E i \in DOMAIN Pre.tasks : Pre.tasks[i].status = "Open"

\* the default listing leaves out an Archived task and lists another
C13_WitnessDefault ==
    /\ Listed
    /\ ~Has(Args, "status_filter") /\ ~Args.include_done /\ ~Args.include_archived
    /\ procs[Me].listed # {}
    /\ \E i \in DOMAIN Pre.tasks : Pre.tasks[i].status = "Archived"

(***************************************************************************)
(* SpecCodec: a record is built by KanbanTask.__init__ from any arguments, *)
(* serialized by to_dict and read back by from_dict; the record read back  *)
(* is changed by update_task (milestone flag, enthusiasm) and serialized   *)
(* again.  codec.t is the record in memory, codec.d its serialization,     *)
(* codec.back the record from_dict builds from codec.d.                    *)
(***************************************************************************)
Enthusiasms ==
    {Int_(0), Int_(1), Int_(2), Int_(3), Int_(5), None_,
     Str_("!!!!!"), Str_("Yay"), Str_("Meh"), Str_("Wow"), Str_("2")}

CodecInputs ==
    {[id |-> 1, title |-> ti, status |-> st, is_milestone |-> mi, tags |-> ta,
      has_subtasks |-> FALSE, enthusiasm |-> en] :
        ti \in {Str_("a"), None_}, st \in {"Open", "Done"}, mi \in BOOLEAN,
        ta \in {None_, <<"x">>}, en \in Enthusiasms}

CodecUpdates ==
    {[is_milestone |-> mi] : mi \in BOOLEAN}
        \cup {[enthusiasm |-> en] : en \in Enthusiasms \ {None_}}
        \cup {[is_milestone |-> FALSE, enthusiasm |-> Str_("Yay")]}

InitCodec ==
    /\ file = "whole"
    /\ disk = InitialData(0)
    /\ tmp = {}
    /\ recovery = <<>>
    /\ now = 1
    /\ nextId = 1
    /\ procs = [p \in Procs |-> IdleProc]
    /\ codec \in {[stage |-> "made", t |-> TaskInit(a), trips |-> 0] : a \in CodecInputs}
    /\ board = NoBoard

Serialize ==
    /\ codec.stage = "made"
    /\ codec' = [stage |-> "saved", t |-> codec.t, d |-> ToDict(codec.t), trips |-> codec.trips]
    /\ UNCHANGED <<board, file, disk, tmp, recovery, now, nextId, procs>>

Deserialize ==
    /\ codec.stage = "saved"
    /\ codec' = [stage |-> "loaded", t |-> codec.t, d |-> codec.d,
                 back |-> FromDict(codec.d), trips |-> codec.trips]
    /\ UNCHANGED <<board, file, disk, tmp, recovery, now, nextId, procs>>

\* update_task works on the records from_dict built
CodecUpdate ==
    /\ codec.stage = "loaded"
    /\ codec.trips < MaxTrips
    /\ \E args \in CodecUpdates :
         codec' = [stage |-> "made", t |-> UpdateEnthusiasm(codec.back, args),
                   trips |-> codec.trips + 1]
    /\ UNCHANGED <<board, file, disk, tmp, recovery, now, nextId, procs>>

NextCodec == Serialize \/ Deserialize \/ CodecUpdate

SpecCodec == InitCodec /\ [][NextCodec]_vars

Persisted == {"id", "title", "status", "is_milestone", "tags", "has_subtasks", "enthusiasm_numeric"}

Canonical == {Str_("!!!!!"), Str_("Yay"), Str_("Meh")}

AliasOf(n) == IF n = 3 THEN "!!!!!" ELSE IF n = 2 THEN "Yay" ELSE IF n = 1 THEN "Meh" ELSE "N/A"

\* the record was given an enthusiasm string outside the canonical aliases
CustomAlias(t) ==
    ~t.is_milestone /\ t.enthusiasm_raw[1] = "str" /\ t.enthusiasm_raw \notin Canonical

\* C14: the record from_dict builds from to_dict(t) equals t in every
\* persisted field, the numeric enthusiasm included, and serializes to the
\* same dict; it displays the enthusiasm alias t displays, unless t was given
\* a non-canonical alias string, and then it displays the alias of its
\* numeric value; a milestone serializes its enthusiasm as None.
C14_RoundTrip ==
    /\ codec.stage = "loaded" =>
          /\ \A f \in Persisted : codec.back[f] = codec.t[f]
          /\ ToDict(codec.back) = codec.d
          /\ MapEnthusiasmToDisplay(codec.back)
                = IF CustomAlias(codec.t) THEN AliasOf(codec.t.enthusiasm_numeric)
                  ELSE MapEnthusiasmToDisplay(codec.t)
          /\ CustomAlias(codec.t)
                => MapEnthusiasmToDisplay(codec.back) # MapEnthusiasmToDisplay(codec.t)
    /\ (codec.stage \in {"saved", "loaded"} /\ codec.t.is_milestone)
          => codec.d.enthusiasm = None_

\* a record read back, given the alias "Wow" by update_task, serialized and
\* read back again
C14_Witness ==
    /\ codec.stage = "loaded" /\ codec.trips >= 1
    /\ codec.t.enthusiasm_raw = Str_("Wow")
    /\ ~codec.t.is_milestone
    /\ codec.back.enthusiasm_raw = Int_(0)

C14_WitnessMilestone ==
    /\ codec.stage = "loaded" /\ codec.t.is_milestone
    /\ codec.t.enthusiasm_raw = Str_("Yay")

(***************************************************************************)
(* SpecDone: one process; tasks are created, given a blocked_by list,      *)
(* moved to Done, or both in one update_task call.                         *)
(***************************************************************************)
DoneUpdates ==
    {[task_id |-> i, blocked_by |-> l] : i \in Known, l \in IdLists}
        \cup {[task_id |-> i, status |-> "Done"] : i \in Known}
        \cup {[task_id |-> i, status |-> "Done", blocked_by |-> l] : i \in Known, l \in IdLists}

NextDone ==
    \/ Linking /\ nextId <= LinkTasks /\ AddLoad(Me, PlainAdds)
    \/ Linking /\ UpdLoad(Me, DoneUpdates)
    \/ UpdWip(Me)
    \/ Save(Me)

SpecDone == Init /\ [][NextDone]_vars

\* C15: after a successful update_task that moved a task to Done, no id in
\* the blocked_by list the task now has names a stored record that is
\* neither Done nor Archived.
C15_DoneLeavesNoBlocker ==
    (AskedDone /\ Outcome = "ok") => Blocking(disk.tasks, Args.task_id) = {}

(***************************************************************************)
(* Properties of Spec about delete_task.                                   *)
(***************************************************************************)
\* p has completed delete_task(T); between its load and its stale check
\* another process saved a document that holds T
DeletedOverSave(p) ==
    /\ Saved(p) /\ procs[p].op = "delete_task"
    /\ procs[p].reread # procs[p].pre
    /\ Stored(procs[p].reread, procs[p].id)

\* C16: in that case the stale check takes its merge branch and the
\* document p writes holds T again.
C16_DeletedReappears ==
    \A p \in Procs :
        DeletedOverSave(p) => procs[p].merged /\ Stored(procs[p].data, procs[p].id)

\* C17: when the document a process's stale check reads is the one its
\* operation loaded, the task list it writes is its in-memory map as it is
\* and the merge branch is not taken; a delete_task(T) that has replaced the
\* very document it loaded has written that document's tasks without T, and
\* T is not on disk.
C17_VerbatimSave ==
    \A p \in Procs :
        /\ (procs[p].pc \in {"temp", "replace"} /\ procs[p].reread = procs[p].pre)
              => procs[p].data.tasks = procs[p].tasks /\ ~procs[p].merged
        /\ (Saved(p) /\ procs[p].op = "delete_task" /\ procs[p].replaced = procs[p].pre)
              => /\ Keys(procs[p].data.tasks) = Keys(procs[p].pre.tasks) \ {procs[p].id}
                 /\ Latest(p) => ~Stored(disk, procs[p].id)

\* a delete_task has replaced the document it loaded, written by the other
\* process, and a task remains on disk
C17_Witness ==
    \E p \in Procs, q \in Procs :
        /\ p # q /\ Saved(q)
        /\ Latest(p) /\ procs[p].op = "delete_task"
        /\ procs[p].replaced = procs[p].pre
        /\ procs[p].pre = procs[q].data
        /\ disk.tasks # <<>>

(***************************************************************************)
(* Properties of SpecSub about the parent's history.                       *)
(***************************************************************************)
\* the completed operation created or deleted a subtask of stored parent p
TouchedSubtaskOf(p) ==
    /\ Completed /\ Outcome = "ok"
    /\ Stored(Pre, p) /\ Stored(disk, p)
    /\ \/ /\ Op = "add_task"
          /\ Has(Args, "is_subtask") /\ Args.is_subtask
          /\ Has(Args, "parent_task_id") /\ Args.parent_task_id = p
       \/ /\ Op = "delete_task"
          /\ Stored(Pre, Args.task_id) /\ Args.task_id # p
          /\ Args.task_id \in SubtasksOf(Pre, p)

\* C18: when add_task creates, or delete_task removes, a subtask of a stored
\* parent, the parent's history grows by one entry if the operation changed
\* its has_subtasks and is unchanged if it did not.
C18_HistoryOnFlipOnly ==
    \A p \in Known :
        TouchedSubtaskOf(p) =>
            IF Get(Pre.tasks, p).has_subtasks # Get(disk.tasks, p).has_subtasks
            THEN Len(Get(disk.tasks, p).history) = Len(Get(Pre.tasks, p).history) + 1
            ELSE Get(disk.tasks, p).history = Get(Pre.tasks, p).history

(***************************************************************************)
(* Properties of SpecLinks about the history of the records an operation   *)
(* changes.                                                                *)
(***************************************************************************)
NoHistory(t) == [t EXCEPT !.history = <<>>]

\* C19: after a successful add_task, update_task or delete_task, every
\* record stored before and after it whose fields other than history have
\* changed has one more history entry than before.
C19_OneEntryPerChangedRecord ==
    (Completed /\ Outcome = "ok" /\ Op \in {"add_task", "update_task", "delete_task"}) =>
        \A id \in Keys(Pre.tasks) \cap Keys(disk.tasks) :
            NoHistory(Get(Pre.tasks, id)) # NoHistory(Get(disk.tasks, id))
                => Len(Get(disk.tasks, id).history) = Len(Get(Pre.tasks, id).history) + 1

(***************************************************************************)
(* SpecLimit: one process; tasks are created and moved to InProgress,      *)
(* limits are set to positive, zero and negative values.                   *)
(***************************************************************************)
LimitInputs ==
    {[status |-> "InProgress", limit |-> n] : n \in {-1, 0, 1}}
        \cup {[status |-> "Open", limit |-> 1], [status |-> "Open", limit |-> 0]}

LimitUpdates == {[task_id |-> i, status |-> "InProgress"] : i \in Known}

NextLimit ==
    \/ AddLoad(Me, PlainAdds)
    \/ UpdLoad(Me, LimitUpdates)
    \/ UpdWip(Me)
    \/ SetWipLimit(Me, LimitInputs)
    \/ Save(Me)

SpecLimit == Init /\ [][NextLimit]_vars

\* C20: every limit in the document on disk is positive; a completed
\* set_wip_limit(S, L) has stored L for S when L > 0 and left S without an
\* entry when L <= 0, the other limits and the tasks staying as they were;
\* a move into a status without an entry is not rejected by admission.
C20_LimitsPositive ==
    /\ \A s \in DOMAIN disk.metadata.wip_limits : disk.metadata.wip_limits[s] > 0
    /\ (Completed /\ Op = "set_wip_limit") =>
          /\ Outcome = "ok"
          /\ disk.tasks = Pre.tasks
          /\ \A s \in Statuses \ {Args.status} :
                /\ s \in DOMAIN disk.metadata.wip_limits <=> s \in DOMAIN PreLimits
                /\ s \in DOMAIN PreLimits => disk.metadata.wip_limits[s] = PreLimits[s]
          /\ IF Args.limit > 0
             THEN /\ Args.status \in DOMAIN disk.metadata.wip_limits
                  /\ disk.metadata.wip_limits[Args.status] = Args.limit
             ELSE Args.status \notin DOMAIN disk.metadata.wip_limits
    /\ (IsMove /\ Target \notin DOMAIN PreLimits) => Outcome # "wip"

\* a negative limit has removed the entry of a status that holds a task
C20_Witness ==
    /\ Completed /\ Op = "set_wip_limit"
    /\ Args.limit < 0
    /\ Args.status \in DOMAIN PreLimits
    /\ CountStatus(disk.tasks, Args.status) >= 1

\* a second task has moved into a status whose limit of 1 was removed
C20_WitnessMove ==
    /\ IsMove /\ Op = "update_task" /\ Outcome = "ok"
    /\ Target \notin DOMAIN PreLimits
    /\ Others >= 1
    /\ "Open" \in DOMAIN PreLimits

(***************************************************************************)
(* The priority sort of list_tasks, lines 338-340 and 356-369, on the      *)
(* active tasks.  A due date is a day number, NoDue stands for None; the   *)
(* ISO strings the code compares order as the days do.                     *)
(***************************************************************************)
NoDue == 0
NoOrder == 0
\* datetime.max.isoformat(): later than every due date
DateMax == 9999

CriticalityRank(c) == IF c = "Important" THEN 2 ELSE IF c = "Not Important" THEN 1 ELSE 0

PriorityRank(p) == IF p = "Urgent" THEN 2 ELSE IF p = "Not Urgent" THEN 1 ELSE 0

\* get_sort_key
GetSortKey(t) ==
    <<CriticalityRank(t.criticality), PriorityRank(t.priority), t.enthusiasm_numeric,
      IF t.due_date # NoDue THEN t.due_date ELSE DateMax,
      IF t.order # NoOrder THEN t.order ELSE -1>>

\* Python's order on tuples of numbers
TupleLess(a, b) ==
    \E i \in DOMAIN a : a[i] < b[i] /\ \A j \in 1..(i - 1) : a[j] = b[j]

\* t put into the list l, sorted from the largest key down, behind the
\* records whose key is not smaller: list.sort(key, reverse=True) is stable
InsertDescending(l, t) ==
    LET k == Cardinality({i \in DOMAIN l : ~TupleLess(GetSortKey(l[i]), GetSortKey(t))})
    IN  SubSeq(l, 1, k) \o <<t>> \o SubSeq(l, k + 1, Len(l))

RECURSIVE SortDescending(_)
SortDescending(l) ==
    IF l = <<>> THEN <<>>
    ELSE InsertDescending(SortDescending(SubSeq(l, 1, Len(l) - 1)), l[Len(l)])

\* lines 338-339
RankedView(tasks) ==
    SelectSeq(tasks, LAMBDA t : t.criticality = "Important" \/ t.priority = "Urgent")

(***************************************************************************)
(* SpecSort: a board of active tasks with any criticality, priority,       *)
(* enthusiasm and due date is listed with sort_by = priority or as the     *)
(* ranked view.  board.tasks is the board, board.out the list returned.    *)
(***************************************************************************)
BoardTasks ==
    [criticality : {"Important", "Not Important"}, priority : {"Urgent", "Not Urgent"},
     enthusiasm_numeric : {0, 2}, due_date : {NoDue} \cup 1..MaxDue, order : {NoOrder}]

InitSort ==
    /\ file = "whole"
    /\ disk = InitialData(0)
    /\ tmp = {}
    /\ recovery = <<>>
    /\ now = 1
    /\ nextId = 1
    /\ procs = [p \in Procs |-> IdleProc]
    /\ codec = NoCodec
    /\ board = [stage |-> "made", tasks |-> <<>>]

\* one more task on the board
BoardAdd ==
    /\ board.stage = "made"
    /\ Len(board.tasks) < MaxBoard
    /\ \E t \in BoardTasks :
         board' = [board EXCEPT !.tasks = Append(@,
                     [id |-> Len(board.tasks) + 1, criticality |-> t.criticality,
                      priority |-> t.priority, enthusiasm_numeric |-> t.enthusiasm_numeric,
                      due_date |-> t.due_date, order |-> t.order])]
    /\ UNCHANGED <<file, disk, tmp, recovery, now, nextId, procs, codec>>

\* list_tasks(sort_by="priority")
ListByPriority ==
    /\ board.stage = "made"
    /\ board' = [stage |-> "priority", tasks |-> board.tasks,
                 out |-> SortDescending(board.tasks)]
    /\ UNCHANGED <<file, disk, tmp, recovery, now, nextId, procs, codec>>

\* list_tasks(ranked_view=True)
ListRanked ==
    /\ board.stage = "made"
    /\ board' = [stage |-> "ranked", tasks |-> board.tasks,
                 out |-> SortDescending(RankedView(board.tasks))]
    /\ UNCHANGED <<file, disk, tmp, recovery, now, nextId, procs, codec>>

NextSort == BoardAdd \/ ListByPriority \/ ListRanked

SpecSort == InitSort /\ [][NextSort]_vars

\* records a and b agree in criticality rank, priority rank and enthusiasm
SameRank(a, b) ==
    /\ CriticalityRank(a.criticality) = CriticalityRank(b.criticality)
    /\ PriorityRank(a.priority) = PriorityRank(b.priority)
    /\ a.enthusiasm_numeric = b.enthusiasm_numeric

\* C21: in a listing sorted by priority, of two listed tasks of the same
\* criticality rank, priority rank and enthusiasm the one with the earlier
\* due date comes first, and one with a due date comes before one without.
C21_EarlierDueFirst ==
    board.stage \in {"priority", "ranked"} =>
        \A i, j \in DOMAIN board.out :
            LET a == board.out[i]
                b == board.out[j]
            IN  (/\ SameRank(a, b)
                 /\ a.due_date # NoDue
                 /\ b.due_date = NoDue \/ a.due_date < b.due_date)
                    => i < j

(***************************************************************************)
(* SpecTorn: one ClawKanban object; between its operations tasks.json is   *)
(* removed, or overwritten with text json.load rejects, by something other *)
(* than the program.                                                       *)
(***************************************************************************)
Damage ==
    /\ procs[Me].pc = "idle"
    /\ file = "whole"
    /\ now <= MaxClock
    /\ file' \in {"missing", "partial"}
    /\ UNCHANGED <<board, codec, disk, tmp, recovery, now, nextId, procs>>

NextTorn ==
    \/ Damage
    \/ AddLoad(Me, PlainAdds)
    \/ UpdLoad(Me, ShareUpdates)
    \/ DelLoad(Me, Known)
    \/ Save(Me)

SpecTorn == Init /\ [][NextTorn]_vars

\* the completed operation found no document in the file when it loaded
TornLoad == Completed /\ procs[Me].torn

C22_WitnessNotFound ==
    /\ TornLoad /\ Op = "delete_task" /\ Outcome = "notfound"
    /\ file = "partial"
    /\ Stored(disk, Args.task_id)

(***************************************************************************)
(* SpecDelete: one process; tasks are created plain, with a link to a      *)
(* known id, as subtasks of a known id, or both, and deleted.              *)
(***************************************************************************)
DeleteAdds ==
    {[title |-> "a"]}
        \cup {[title |-> "a", blocks |-> <<i>>] : i \in Known}
        \cup {[title |-> "a", blocked_by |-> <<i>>] : i \in Known}
        \cup {[title |-> "a", is_subtask |-> TRUE, parent_task_id |-> j] : j \in Known}
        \cup {[title |-> "a", is_subtask |-> TRUE, parent_task_id |-> j, blocks |-> <<i>>] :
                 i \in Known, j \in Known}

NextDelete ==
    \/ AddLoad(Me, DeleteAdds)
    \/ DelLoad(Me, Known)
    \/ Save(Me)

SpecDelete == Init /\ [][NextDelete]_vars

\* the completed operation deleted the stored task x
Deleted(x) ==
    /\ Completed /\ Op = "delete_task" /\ Outcome = "ok"
    /\ Args.task_id = x /\ Stored(Pre, x)

\* C23: delete_task(X) removes X and no other record; every remaining
\* record keeps its blocks and blocked_by lists as they were, ids of X
\* included; a record other than X's parent is unchanged altogether, and
\* X's parent changes in has_subtasks and history at most.
C23_DeleteKeepsLinks ==
    \A x \in Known :
        Deleted(x) =>
            /\ Keys(disk.tasks) = Keys(Pre.tasks) \ {x}
            /\ \A id \in Keys(disk.tasks) :
                  LET old == Get(Pre.tasks, id)
                      new == Get(disk.tasks, id)
                  IN  /\ new.blocks = old.blocks
                      /\ new.blocked_by = old.blocked_by
                      /\ IF id = Get(Pre.tasks, x).parent_task_id
                         THEN new = [old EXCEPT !.has_subtasks = new.has_subtasks,
                                                !.history = new.history]
                         ELSE new = old

\* a deleted subtask has left its id in the blocked_by list of its parent,
\* whose has_subtasks the delete has cleared
C23_Witness ==
    \E x \in Known :
        /\ Deleted(x)
        /\ \E i \in DOMAIN disk.tasks :
              /\ disk.tasks[i].id = Get(Pre.tasks, x).parent_task_id
              /\ Contains(disk.tasks[i].blocked_by, x)
              /\ ~disk.tasks[i].has_subtasks
              /\ Get(Pre.tasks, disk.tasks[i].id).has_subtasks

(***************************************************************************)
(* SpecStranger: one process; the link lists of add_task and update_task   *)
(* name ids handed out before, deleted ones included, and an id no task    *)
(* ever had.                                                               *)
(***************************************************************************)
Stranger == MaxTasks + 2

StrangerLists == {<<u>> : u \in Known \cup {Stranger}} \cup {<<i, Stranger>> : i \in Known}

StrangerAdds ==
    {[title |-> "a"]}
        \cup {[title |-> "a", blocks |-> l] : l \in StrangerLists}
        \cup {[title |-> "a", blocked_by |-> l] : l \in StrangerLists}

StrangerUpdates ==
    {[task_id |-> i, blocks |-> l] : i \in Known, l \in StrangerLists}
        \cup {[task_id |-> i, blocked_by |-> l] : i \in Known, l \in StrangerLists}

Naming == now <= StrangerClock

NextStranger ==
    \/ Naming /\ nextId <= LinkTasks /\ AddLoad(Me, StrangerAdds)
    \/ Naming /\ UpdLoad(Me, StrangerUpdates)
    \/ Naming /\ DelLoad(Me, Known)
    \/ Save(Me)

SpecStranger == Init /\ [][NextStranger]_vars

\* the ids the completed operation named in its blocks or blocked_by argument
Named(field) == IF Has(Args, field) THEN Elems(Args[field]) ELSE {}

\* those of them the document did not hold
Absent(field) == Named(field) \ Keys(Pre.tasks)

\* the completed operation is an add_task, or an update_task of a stored
\* task, that named an id the document did not hold
NamedAbsent ==
    /\ Completed /\ Op \in {"add_task", "update_task"}
    /\ Op = "update_task" => Stored(Pre, Args.task_id)
    /\ Absent("blocks") \cup Absent("blocked_by") # {}

\* C24: an add_task or update_task naming in blocks or blocked_by an id the
\* document does not hold ends without error; the id is in the task's own
\* list afterwards; no record is made for it; and a record the operation
\* did not name gains no edge to the task.
C24_UnknownTargetsIgnored ==
    NamedAbsent =>
        LET self == procs[Me].id
        IN  /\ Outcome \in {"ok", "nochange"}
            /\ Keys(disk.tasks) = Keys(Pre.tasks) \cup {self}
            /\ \A u \in Absent("blocks") : Contains(Get(disk.tasks, self).blocks, u)
            /\ \A u \in Absent("blocked_by") : Contains(Get(disk.tasks, self).blocked_by, u)
            /\ \A r \in Keys(Pre.tasks) \ {self} :
                  /\ r \notin Named("blocks") /\ Contains(Get(disk.tasks, r).blocked_by, self)
                        => Contains(Get(Pre.tasks, r).blocked_by, self)
                  /\ r \notin Named("blocked_by") /\ Contains(Get(disk.tasks, r).blocks, self)
                        => Contains(Get(Pre.tasks, r).blocks, self)

\* an add_task named a stored id and the id no task ever had: the stored
\* record has the reciprocal edge, the new task holds both ids
C24_Witness ==
    /\ NamedAbsent /\ Op = "add_task" /\ Outcome = "ok"
    /\ Stranger \in Absent("blocks")
    /\ \E r \in Keys(Pre.tasks) :
          /\ r \in Named("blocks")
          /\ Contains(Get(disk.tasks, r).blocked_by, procs[Me].id)
    /\ Contains(Get(disk.tasks, procs[Me].id).blocks, Stranger)

\* an add_task or update_task put the id of a deleted task into blocked_by
C24_WitnessDeleted ==
    /\ NamedAbsent /\ Outcome = "ok"
    /\ \E u \in Absent("blocked_by") :
          /\ u \in Known
          /\ Contains(Get(disk.tasks, procs[Me].id).blocked_by, u)

(***************************************************************************)
(* SpecCap: one limit is set on the empty document while no operation is   *)
(* under way, and stays; from then on two processes interleave add_task,   *)
(* update_task and delete_task.                                            *)
(***************************************************************************)
CapLimits == {[status |-> "Open", limit |-> 1], [status |-> "InProgress", limit |-> 1]}

CapUpdates == {[task_id |-> i, status |-> s] : i \in Known, s \in {"Open", "InProgress"}}

Uncapped ==
    /\ disk.metadata.wip_limits = NoLimits
    /\ disk.tasks = <<>>
    /\ \A q \in Procs : procs[q].pc = "idle"

Capped == disk.metadata.wip_limits # NoLimits

Capping == now <= CapClock

NextCap ==
    \E p \in Procs :
        \/ Uncapped /\ SetWipLimit(p, CapLimits)
        \/ Capped /\ Capping /\ nextId <= RaceTasks /\ AddLoad(p, PlainAdds)
        \/ Capped /\ Capping /\ UpdLoad(p, CapUpdates)
        \/ UpdWip(p)
        \/ Capped /\ Capping /\ DelLoad(p, Known)
        \/ Save(p)

SpecCap == Init /\ [][NextCap]_vars

WithinLimits(d) ==
    \A s \in DOMAIN d.metadata.wip_limits :
        CountStatus(d.tasks, s) <= d.metadata.wip_limits[s]

\* C25: with the limit of a status fixed at N > 0 and no more than N tasks
\* of that status to begin with, every document on disk has at most N tasks
\* of that status, whatever the interleaving of add_task, update_task and
\* delete_task of the processes.
C25_CapacityUnderInterleaving == WithinLimits(disk)

\* two add_task calls were both admitted against the same document under a
\* limit of one Open task, and both have saved: the later save replaced
\* the earlier one's task
C25_Witness ==
    \E p \in Procs, q \in Procs :
        /\ p # q
        /\ Capped /\ "Open" \in DOMAIN disk.metadata.wip_limits
        /\ procs[p].pc = "idle" /\ procs[p].op = "add_task" /\ procs[p].outcome = "ok"
        /\ procs[q].pc = "idle" /\ procs[q].op = "add_task" /\ procs[q].outcome = "ok"
        /\ procs[p].pre = procs[q].pre
        /\ Keys(disk.tasks) = {procs[q].id}
        /\ CountStatus(disk.tasks, "Open") = disk.metadata.wip_limits["Open"]

\* two update_task calls moving different tasks to InProgress were both
\* admitted against the same document under a limit of one, and both have
\* saved: one task is InProgress on disk
C25_WitnessMoves ==
    \E p \in Procs, q \in Procs :
        /\ p # q
        /\ "InProgress" \in DOMAIN disk.metadata.wip_limits
        /\ procs[p].pc = "idle" /\ procs[p].op = "update_task" /\ procs[p].outcome = "ok"
        /\ procs[q].pc = "idle" /\ procs[q].op = "update_task" /\ procs[q].outcome = "ok"
        /\ procs[p].args.status = "InProgress" /\ procs[q].args.status = "InProgress"
        /\ procs[p].id # procs[q].id
        /\ procs[p].pre = procs[q].pre
        /\ CountStatus(disk.tasks, "InProgress") = 1

(***************************************************************************)
(* SpecRepeat: one process; update_task is given a title, a status, an     *)
(* assignee (a name or the empty string), or a status and an assignee, and *)
(* the same arguments may be given again.                                  *)
(***************************************************************************)
Assignees == {"", "bob"}

RepeatUpdates ==
    {[task_id |-> i, title |-> "b"] : i \in Known}
        \cup {[task_id |-> i, status |-> "InProgress"] : i \in Known}
        \cup {[task_id |-> i, assignee |-> a] : i \in Known, a \in Assignees}
        \cup {[task_id |-> i, status |-> "InProgress", assignee |-> a] :
                 i \in Known, a \in Assignees}

NextRepeat ==
    \/ AddLoad(Me, PlainAdds)
    \/ UpdLoad(Me, RepeatUpdates)
    \/ UpdWip(Me)
    \/ Save(Me)

SpecRepeat == Init /\ [][NextRepeat]_vars

\* the step issues update_task again, with the arguments of the update_task
\* that has just succeeded
Repeated ==
    /\ Completed /\ Op = "update_task" /\ Outcome = "ok"
    /\ procs'[Me] # procs[Me]
    /\ procs'[Me].op = "update_task" /\ procs'[Me].args = Args

\* C26: an update_task issued again with the arguments of the update_task
\* that has just succeeded ends at once, having found nothing to change:
\* it goes on to no save, so it appends no history entry and writes nothing.
C26_RepeatedUpdateNoOp ==
    [][Repeated => procs'[Me].pc = "idle" /\ procs'[Me].outcome # "ok"]_vars

(***************************************************************************)
(* The metadata a task operation writes (SpecShare: two processes, one of  *)
(* which may set or remove a limit while the other's operation is under    *)
(* way; the file is readable throughout).                                  *)
(***************************************************************************)
TaskOps == {"add_task", "update_task", "delete_task"}

\* p's task operation has built the document it writes, or has written it
Writing(p) ==
    /\ procs[p].op \in TaskOps /\ procs[p].outcome = "ok"
    /\ procs[p].pc \in {"temp", "replace", "idle"}

====
